---------------------------- MODULE Spec2Model ----------------------------
(***************************************************************************)
(* A model of pth.hxx, the pthread RAII wrapper: pth::thread, pth::rwlock, *)
(* pth::mutex, pth::spinlock and pth::cond_var, together with the          *)
(* ASSERT_EQ0 instrumentation every wrapper operation goes through.        *)
(*                                                                         *)
(* The header is compiled in two ways (pth.hxx:30-35): with NDEBUG defined *)
(* ASSERT_EQ0(X) expands to void(0), so X is not evaluated at all; without *)
(* it X is evaluated once.  The build is part of the state (NDEBUG).       *)
(*                                                                         *)
(* The OS primitives are modelled by what POSIX says of them; the wrapper  *)
(* operations are modelled from the header, line by line.                  *)
(***************************************************************************)
EXTENDS Integers, FiniteSets, Sequences, TLC

(***************************************************************************)
(* Bounds of the model.                                                    *)
(***************************************************************************)
NumThreads == 2

Threads == 1 .. NumThreads

\* <cerrno>: the value of EBUSY on Linux.
EBUSY == 16

\* <cerrno>: the value of EINVAL on Linux.
EINVAL == 22

VARIABLES
    NDEBUG,          \* the build: TRUE when NDEBUG is defined
    mutex_handle,    \* pth::mutex::_handle: 0 = unlocked, else the owner
    spin_handle,     \* pth::spinlock::_handle: 0 = unlocked, else the owner
    rwlock_handle,   \* pth::rwlock::_handle: [writer, readers, wwait, kind]
    lk_obj,          \* which primitive the program under test constructed
    lk_held,         \* what each thread was given by the wrapper and has not released
    lk_pc,           \* "ready", or "wrlock" while blocked inside rwlock::wrlock()
    lk_last          \* the try-call made by the last step, if it was one

lockvars == <<lk_obj, mutex_handle, spin_handle, rwlock_handle, lk_held, lk_pc, lk_last>>

(***************************************************************************)
(* ASSERT_EQ0(X), pth.hxx:30-35.  With NDEBUG the macro is void(0): the    *)
(* call X is dropped from the program.  Without it X is evaluated; the     *)
(* handler of a non-zero result is assert("... != 0"), the assertion of a  *)
(* string literal, which is a non-null pointer and never fails.            *)
(***************************************************************************)
ASSERT_EQ0(X, dropped) == IF NDEBUG THEN dropped ELSE X

\* The handler of a non-zero result, []{assert(#X " != 0");}(): whether it
\* halts the process.  The expression asserted is the string literal
\* "X != 0", a non-null pointer, which converts to true.
assert_argument == TRUE

ASSERT_EQ0_halts(retval) == ~NDEBUG /\ retval # 0 /\ ~assert_argument

\* A handle no constructor initialised (the init call sits inside
\* ASSERT_EQ0) holds whatever the storage held: zero, or not.
Indeterminate == NumThreads + 1

NoCall == [op |-> "none", t |-> 0, rv |-> 0, ret |-> FALSE, conflict |-> FALSE]

NotHeld == [mutex |-> FALSE, spin |-> FALSE, rw |-> "none"]

(***************************************************************************)
(* The OS primitives.                                                      *)
(***************************************************************************)
\* pthread_mutex_trylock / pthread_spin_trylock on a handle h by thread t.
pthread_trylock(h, t) ==
    IF h = 0 THEN [h |-> t, rv |-> 0] ELSE [h |-> h, rv |-> EBUSY]

\* pthread_rwlock_rdlock under reader preference: only a writer that holds
\* the lock blocks a reader.
rd_would_block_reader_preferring(rw) == rw.writer # 0

\* Whether pthread_rwlock_rdlock would block: a writer holds the lock, or
\* (writer preference) a writer is waiting for it.
rd_would_block(rw) ==
    \/ rw.writer # 0
    \/ rw.kind = "PREFER_WRITER_NONRECURSIVE" /\ rw.wwait # {}

wr_would_block(rw) == rw.writer # 0 \/ rw.readers # {}

pthread_rwlock_tryrdlock(rw, t) ==
    IF rd_would_block(rw)
    THEN [h |-> rw, rv |-> EBUSY]
    ELSE [h |-> [rw EXCEPT !.readers = @ \cup {t}], rv |-> 0]

pthread_rwlock_trywrlock(rw, t) ==
    IF wr_would_block(rw) \/ rw.wwait # {}
    THEN [h |-> rw, rv |-> EBUSY]
    ELSE [h |-> [rw EXCEPT !.writer = t], rv |-> 0]

pthread_rwlock_unlock(rw, t) ==
    IF rw.writer = t THEN [rw EXCEPT !.writer = 0]
    ELSE [rw EXCEPT !.readers = @ \ {t}]

(***************************************************************************)
(* Construction.  mutex() and spinlock(pshared) initialise the handle      *)
(* inside ASSERT_EQ0 (pth.hxx:163, 194); rwlock() sets the writer          *)
(* preference and initialises inside ASSERT_EQ0 (pth.hxx:135-143), and     *)
(* rwlock(attr) takes the kind the caller's attribute names (pth.hxx:114). *)
(***************************************************************************)
RwKinds == {"PREFER_WRITER_NONRECURSIVE", "PREFER_READER"}

RwInit(kind) == [writer |-> 0, readers |-> {}, wwait |-> {}, kind |-> kind]

mutex_ctor ==
    ASSERT_EQ0(mutex_handle = 0, mutex_handle \in {0, Indeterminate})

spinlock_ctor ==
    ASSERT_EQ0(spin_handle = 0, spin_handle \in {0, Indeterminate})

rwlock_ctor ==
    ASSERT_EQ0(\E kind \in RwKinds : rwlock_handle = RwInit(kind),
               \E w \in {0, Indeterminate}, kind \in RwKinds :
                   rwlock_handle = [RwInit(kind) EXCEPT !.writer = w])

\* The program under test constructs one primitive; the other handles are
\* never touched.
InitLocks ==
    /\ NDEBUG \in BOOLEAN
    /\ lk_obj \in {"mutex", "spinlock", "rwlock"}
    /\ IF lk_obj = "mutex" THEN mutex_ctor ELSE mutex_handle = 0
    /\ IF lk_obj = "spinlock" THEN spinlock_ctor ELSE spin_handle = 0
    /\ IF lk_obj = "rwlock" THEN rwlock_ctor
       ELSE rwlock_handle = RwInit("PREFER_WRITER_NONRECURSIVE")
    /\ lk_held = [t \in Threads |-> NotHeld]
    /\ lk_pc = [t \in Threads |-> "ready"]
    /\ lk_last = NoCall

(***************************************************************************)
(* pth::mutex                                                              *)
(***************************************************************************)
\* void lock() { ASSERT_EQ0( ::pthread_mutex_lock( &_handle ) ); }
\* The OS call returns once the mutex is free; the caller then holds it.
mutex_lock(t) ==
    /\ lk_obj = "mutex"
    /\ lk_pc[t] = "ready" /\ ~lk_held[t].mutex
    /\ ASSERT_EQ0(mutex_handle = 0 /\ mutex_handle' = t,
                  UNCHANGED mutex_handle)
    /\ lk_held' = [lk_held EXCEPT ![t].mutex = TRUE]
    /\ lk_last' = NoCall
    /\ UNCHANGED <<NDEBUG, lk_obj, spin_handle, rwlock_handle, lk_pc>>

\* void unlock() { ASSERT_EQ0( ::pthread_mutex_unlock( &_handle ) ); }
mutex_unlock(t) ==
    /\ lk_obj = "mutex"
    /\ lk_pc[t] = "ready" /\ lk_held[t].mutex
    /\ ASSERT_EQ0(mutex_handle' = 0, UNCHANGED mutex_handle)
    /\ lk_held' = [lk_held EXCEPT ![t].mutex = FALSE]
    /\ lk_last' = NoCall
    /\ UNCHANGED <<NDEBUG, lk_obj, spin_handle, rwlock_handle, lk_pc>>

\* The value trylock() returns for the OS result retval (pth.hxx:186-188):
\* false for EBUSY, and true otherwise, ASSERT_EQ0 never halting.
trylock_result(retval) == IF retval = EBUSY THEN FALSE ELSE TRUE

\* pthread_mutex_trylock on the handle h: the outcomes of the call.  On a
\* pthread_mutex_t that was never initialised and is not zero the call is
\* undefined: it finds the mutex taken, or finds no valid mutex type (EINVAL).
pthread_mutex_trylock(h, t) ==
    IF h = Indeterminate
    THEN {[h |-> h, rv |-> EBUSY], [h |-> h, rv |-> EINVAL]}
    ELSE {pthread_trylock(h, t)}

\* bool mutex::trylock(): the OS call is made outside ASSERT_EQ0.
mutex_trylock(t) ==
    /\ lk_obj = "mutex"
    /\ lk_pc[t] = "ready"
    /\ \E r \in pthread_mutex_trylock(mutex_handle, t) :
       LET ret == trylock_result(r.rv)
       IN  /\ mutex_handle' = r.h
           /\ lk_held' = [lk_held EXCEPT ![t].mutex = @ \/ ret]
           /\ lk_last' = [op |-> "mutex_trylock", t |-> t, rv |-> r.rv, ret |-> ret,
                          conflict |-> \E u \in Threads : lk_held[u].mutex]
    /\ UNCHANGED <<NDEBUG, lk_obj, spin_handle, rwlock_handle, lk_pc>>

(***************************************************************************)
(* pth::spinlock                                                           *)
(***************************************************************************)
spinlock_lock(t) ==
    /\ lk_obj = "spinlock"
    /\ lk_pc[t] = "ready" /\ ~lk_held[t].spin
    /\ ASSERT_EQ0(spin_handle = 0 /\ spin_handle' = t,
                  UNCHANGED spin_handle)
    /\ lk_held' = [lk_held EXCEPT ![t].spin = TRUE]
    /\ lk_last' = NoCall
    /\ UNCHANGED <<NDEBUG, lk_obj, mutex_handle, rwlock_handle, lk_pc>>

spinlock_unlock(t) ==
    /\ lk_obj = "spinlock"
    /\ lk_pc[t] = "ready" /\ lk_held[t].spin
    /\ ASSERT_EQ0(spin_handle' = 0, UNCHANGED spin_handle)
    /\ lk_held' = [lk_held EXCEPT ![t].spin = FALSE]
    /\ lk_last' = NoCall
    /\ UNCHANGED <<NDEBUG, lk_obj, mutex_handle, rwlock_handle, lk_pc>>

spinlock_trylock(t) ==
    /\ lk_obj = "spinlock"
    /\ lk_pc[t] = "ready"
    /\ LET r == pthread_trylock(spin_handle, t)
           ret == trylock_result(r.rv)
       IN  /\ spin_handle' = r.h
           /\ lk_held' = [lk_held EXCEPT ![t].spin = @ \/ ret]
           /\ lk_last' = [op |-> "spinlock_trylock", t |-> t, rv |-> r.rv, ret |-> ret,
                          conflict |-> \E u \in Threads : lk_held[u].spin]
    /\ UNCHANGED <<NDEBUG, lk_obj, mutex_handle, rwlock_handle, lk_pc>>

(***************************************************************************)
(* pth::rwlock                                                             *)
(***************************************************************************)
\* void rdlock() { ASSERT_EQ0( ::pthread_rwlock_rdlock( &_handle ) ); }
rwlock_rdlock(t) ==
    /\ lk_obj = "rwlock"
    /\ lk_pc[t] = "ready" /\ lk_held[t].rw = "none"
    /\ ASSERT_EQ0(/\ ~rd_would_block(rwlock_handle)
                  /\ rwlock_handle' = [rwlock_handle EXCEPT !.readers = @ \cup {t}],
                  UNCHANGED rwlock_handle)
    /\ lk_held' = [lk_held EXCEPT ![t].rw = "rd"]
    /\ lk_last' = NoCall
    /\ UNCHANGED <<NDEBUG, lk_obj, mutex_handle, spin_handle, lk_pc>>

\* void wrlock() { ASSERT_EQ0( ::pthread_rwlock_wrlock( &_handle ) ); }
\* The call: the OS queues the writer; with NDEBUG there is no call and
\* wrlock() returns at once.
rwlock_wrlock(t) ==
    /\ lk_obj = "rwlock"
    /\ lk_pc[t] = "ready" /\ lk_held[t].rw = "none"
    /\ ASSERT_EQ0(/\ rwlock_handle' = [rwlock_handle EXCEPT !.wwait = @ \cup {t}]
                  /\ lk_pc' = [lk_pc EXCEPT ![t] = "wrlock"]
                  /\ UNCHANGED lk_held,
                  /\ lk_held' = [lk_held EXCEPT ![t].rw = "wr"]
                  /\ UNCHANGED <<rwlock_handle, lk_pc>>)
    /\ lk_last' = NoCall
    /\ UNCHANGED <<NDEBUG, lk_obj, mutex_handle, spin_handle>>

\* The return of pthread_rwlock_wrlock: the lock is free and the writer gets it.
rwlock_wrlock_return(t) ==
    /\ lk_obj = "rwlock"
    /\ lk_pc[t] = "wrlock"
    /\ ~wr_would_block(rwlock_handle)
    /\ rwlock_handle' = [rwlock_handle EXCEPT !.wwait = @ \ {t}, !.writer = t]
    /\ lk_pc' = [lk_pc EXCEPT ![t] = "ready"]
    /\ lk_held' = [lk_held EXCEPT ![t].rw = "wr"]
    /\ lk_last' = NoCall
    /\ UNCHANGED <<NDEBUG, lk_obj, mutex_handle, spin_handle>>

\* void unlock() { ASSERT_EQ0( ::pthread_rwlock_unlock( &_handle ) ); }
rwlock_unlock(t) ==
    /\ lk_obj = "rwlock"
    /\ lk_pc[t] = "ready" /\ lk_held[t].rw # "none"
    /\ ASSERT_EQ0(rwlock_handle' = pthread_rwlock_unlock(rwlock_handle, t),
                  UNCHANGED rwlock_handle)
    /\ lk_held' = [lk_held EXCEPT ![t].rw = "none"]
    /\ lk_last' = NoCall
    /\ UNCHANGED <<NDEBUG, lk_obj, mutex_handle, spin_handle, lk_pc>>

\* bool rwlock::tryrdlock()
rwlock_tryrdlock(t) ==
    /\ lk_obj = "rwlock"
    /\ lk_pc[t] = "ready" /\ lk_held[t].rw = "none"
    /\ LET r == pthread_rwlock_tryrdlock(rwlock_handle, t)
           ret == trylock_result(r.rv)
       IN  /\ rwlock_handle' = r.h
           /\ lk_held' = [lk_held EXCEPT ![t].rw = IF ret THEN "rd" ELSE @]
           /\ lk_last' = [op |-> "rwlock_tryrdlock", t |-> t, rv |-> r.rv, ret |-> ret,
                          conflict |-> \E u \in Threads : lk_held[u].rw = "wr"]
    /\ UNCHANGED <<NDEBUG, lk_obj, mutex_handle, spin_handle, lk_pc>>

\* bool rwlock::trywrlock()
rwlock_trywrlock(t) ==
    /\ lk_obj = "rwlock"
    /\ lk_pc[t] = "ready" /\ lk_held[t].rw = "none"
    /\ LET r == pthread_rwlock_trywrlock(rwlock_handle, t)
           ret == trylock_result(r.rv)
       IN  /\ rwlock_handle' = r.h
           /\ lk_held' = [lk_held EXCEPT ![t].rw = IF ret THEN "wr" ELSE @]
           /\ lk_last' = [op |-> "rwlock_trywrlock", t |-> t, rv |-> r.rv, ret |-> ret,
                          conflict |-> \E u \in Threads : lk_held[u].rw # "none"]
    /\ UNCHANGED <<NDEBUG, lk_obj, mutex_handle, spin_handle, lk_pc>>

(***************************************************************************)
(* pth::cond_var, used with a pth::mutex (mutex_handle above).  The client *)
(* threads call wait() while they hold the mutex and change the shared     *)
(* state while they hold the mutex; signal() and broadcast() may be called *)
(* by any thread, as POSIX allows.  A thread that holds the mutex and has  *)
(* changed the shared state when it signals follows the protocol "lock,    *)
(* change, signal, unlock".                                                *)
(***************************************************************************)
MaxShared == 2

VARIABLES
    cond_handle,     \* pth::cond_var::_handle: the threads blocked on it
    nh,              \* cond_var::wait's local nh: each waiter's copy of the mutex handle
    cv_shared,       \* the shared state the mutex protects: a change counter
    cv_seen,         \* the value of cv_shared when the thread called wait()
    cv_mutated,      \* the thread changed cv_shared in this critical section
    cv_woke,         \* how a waiter was woken: "no", "protocol" or "other"
    cv_last,         \* the return of wait() made by the last step, if it was one
    tw_now,          \* the reading of CLOCK_REALTIME: [sec, ns]
    tw_call,         \* timedwait's nsec and abstime of each thread blocked in it
    tw_last          \* the call or return of timedwait() made by the last step

timedvars == <<tw_now, tw_call, tw_last>>

condvars == <<cond_handle, nh, cv_shared, cv_seen, cv_mutated, cv_woke, cv_last, timedvars>>

NoReturn == [op |-> "none", t |-> 0, seen |-> 0, by |-> "no"]

\* cond_var() { ASSERT_EQ0( ::pthread_cond_init( &_handle, nullptr ) ); }
InitCond ==
    /\ cond_handle = {}
    /\ nh = [t \in Threads |-> 0]
    /\ cv_shared = 0
    /\ cv_seen = [t \in Threads |-> 0]
    /\ cv_mutated = [t \in Threads |-> FALSE]
    /\ cv_woke = [t \in Threads |-> "no"]
    /\ cv_last = NoReturn

\* ::pthread_mutex_t native_handle() { return _handle; }  The handle is
\* returned by value: the caller gets a copy of the pthread_mutex_t, in the
\* state the mutex is in.
mutex_native_handle == mutex_handle

\* pthread_cond_wait(&_handle, &m) by thread t, its first half: the mutex
\* object m it was handed is released (by its owner t) and the thread blocks
\* on the condition variable.  The value is the state m is left in.
pthread_cond_wait_release(m, t) == IF m = t THEN 0 ELSE m

\* void cond_var::wait( mutex& mtx ), pth.hxx:245-248:
\*     ::pthread_mutex_t nh = mtx.native_handle();
\*     ASSERT_EQ0( ::pthread_cond_wait( &_handle, &nh ) );
\* pthread_cond_wait is handed the address of the local copy nh, and it is
\* the copy that it releases.  mtx._handle is not written.  With NDEBUG
\* the call is dropped and wait() returns at once.
cond_var_wait(t) ==
    /\ lk_obj = "mutex"
    /\ lk_pc[t] = "ready" /\ lk_held[t].mutex
    /\ ASSERT_EQ0(/\ nh' = [nh EXCEPT ![t] = pthread_cond_wait_release(mutex_native_handle, t)]
                  /\ cond_handle' = cond_handle \cup {t}
                  /\ lk_pc' = [lk_pc EXCEPT ![t] = "blocked"]
                  /\ cv_seen' = [cv_seen EXCEPT ![t] = cv_shared]
                  /\ cv_last' = NoReturn,
                  /\ cv_last' = [op |-> "wait_return", t |-> t, seen |-> cv_shared,
                                  by |-> "no"]
                  /\ UNCHANGED <<nh, cond_handle, lk_pc, cv_seen>>)
    /\ lk_last' = NoCall
    /\ UNCHANGED <<NDEBUG, lk_obj, mutex_handle, spin_handle, rwlock_handle, lk_held,
                   cv_shared, cv_mutated, cv_woke>>

\* The second half of pthread_cond_wait: the thread was signalled, takes the
\* mutex object it was handed (the copy nh) again once that is free, and
\* wait() returns; nh goes out of scope.
cond_var_wait_return(t) ==
    /\ lk_pc[t] = "blocked" /\ t \notin cond_handle
    /\ nh[t] = 0
    /\ nh' = [nh EXCEPT ![t] = 0]
    /\ lk_pc' = [lk_pc EXCEPT ![t] = "ready"]
    /\ cv_last' = [op |-> "wait_return", t |-> t, seen |-> cv_seen[t], by |-> cv_woke[t]]
    /\ cv_seen' = [cv_seen EXCEPT ![t] = 0]
    /\ cv_woke' = [cv_woke EXCEPT ![t] = "no"]
    /\ lk_last' = NoCall
    /\ UNCHANGED <<NDEBUG, lk_obj, mutex_handle, spin_handle, rwlock_handle, lk_held,
                   cond_handle, cv_shared, cv_mutated>>

\* The client changes the shared state inside its critical section.
mutate(t) ==
    /\ lk_obj = "mutex"
    /\ lk_pc[t] = "ready" /\ lk_held[t].mutex
    /\ ~cv_mutated[t] /\ cv_shared < MaxShared
    /\ cv_shared' = cv_shared + 1
    /\ cv_mutated' = [cv_mutated EXCEPT ![t] = TRUE]
    /\ cv_last' = NoReturn
    /\ lk_last' = NoCall
    /\ UNCHANGED <<NDEBUG, lk_obj, mutex_handle, spin_handle, rwlock_handle, lk_held,
                   lk_pc, cond_handle, nh, cv_seen, cv_woke>>

\* Whether thread t signals as the protocol has it: inside its critical
\* section, after changing the shared state.
Signaller(t) == IF lk_held[t].mutex /\ cv_mutated[t] THEN "protocol" ELSE "other"

\* pthread_cond_signal: wakes one of the waiters, if there are any;
\* pthread_cond_broadcast: wakes them all.  woken is the set that is woken.
pthread_cond_wake(t, woken) ==
    /\ cond_handle' = cond_handle \ woken
    /\ cv_woke' = [w \in Threads |-> IF w \in woken THEN Signaller(t) ELSE cv_woke[w]]

\* void signal() { ASSERT_EQ0( ::pthread_cond_signal( &_handle ) ); }
cond_var_signal(t) ==
    /\ lk_obj = "mutex"
    /\ lk_pc[t] = "ready"
    /\ ASSERT_EQ0(IF cond_handle = {} THEN pthread_cond_wake(t, {})
                  ELSE \E w \in cond_handle : pthread_cond_wake(t, {w}),
                  UNCHANGED <<cond_handle, cv_woke>>)
    /\ cv_last' = NoReturn
    /\ lk_last' = NoCall
    /\ UNCHANGED <<NDEBUG, lk_obj, mutex_handle, spin_handle, rwlock_handle, lk_held,
                   lk_pc, nh, cv_shared, cv_seen, cv_mutated>>

\* void broadcast() { ASSERT_EQ0( ::pthread_cond_broadcast( &_handle ) ); }
cond_var_broadcast(t) ==
    /\ lk_obj = "mutex"
    /\ lk_pc[t] = "ready"
    /\ ASSERT_EQ0(pthread_cond_wake(t, cond_handle),
                  UNCHANGED <<cond_handle, cv_woke>>)
    /\ cv_last' = NoReturn
    /\ lk_last' = NoCall
    /\ UNCHANGED <<NDEBUG, lk_obj, mutex_handle, spin_handle, rwlock_handle, lk_held,
                   lk_pc, nh, cv_shared, cv_seen, cv_mutated>>

\* The client's lock() and unlock() around its critical section.
cv_lock(t) ==
    /\ mutex_lock(t)
    /\ cv_last' = NoReturn
    /\ UNCHANGED <<cond_handle, nh, cv_shared, cv_seen, cv_mutated, cv_woke>>

cv_unlock(t) ==
    /\ mutex_unlock(t)
    /\ cv_mutated' = [cv_mutated EXCEPT ![t] = FALSE]
    /\ cv_last' = NoReturn
    /\ UNCHANGED <<cond_handle, nh, cv_shared, cv_seen, cv_woke>>

(***************************************************************************)
(* cond_var::timedwait, pth.hxx:250-272.  The clock is read, the deadline  *)
(* is computed from it and the relative duration, and                      *)
(* pthread_cond_timedwait is called with a copy of the mutex, outside      *)
(* ASSERT_EQ0: the call is made in either build.                           *)
(***************************************************************************)
\* constexpr long NS_PER_SEC = 1000000000L;
NS_PER_SEC == 1000000000

\* <cerrno>: the value of ETIMEDOUT on Linux.
ETIMEDOUT == 110

\* The clock readings of the model: seconds 0 .. MaxSec, and nanoseconds at
\* both ends of their range.
MaxSec == 1

NsReadings == {0, NS_PER_SEC - 1}

ClockReadings == {[sec |-> sc, ns |-> n] : sc \in 0 .. MaxSec, n \in NsReadings}

\* The relative durations the callers pass (long nsec).
Durations ==
    {0 - NS_PER_SEC - 1, 0 - 1, 0, 2, NS_PER_SEC - 1, NS_PER_SEC + 1}

Epoch == [sec |-> 0, ns |-> 0]

NoTimedCall == [nsec |-> 0, abstime |-> Epoch]

NoTimed == [op |-> "none", t |-> 0, nsec |-> 0, now |-> Epoch, abstime |-> Epoch,
            rv |-> 0, ret |-> 0, signalled |-> FALSE]

\* No timedwait() is in use: the clock is not read.
NoTimedwait ==
    /\ tw_now = Epoch
    /\ tw_call = [t \in Threads |-> NoTimedCall]
    /\ tw_last = NoTimed

\* C++ integer division and remainder: the quotient is truncated toward
\* zero and the remainder has the sign of the dividend.
cdiv(a, b) == IF a >= 0 THEN a \div b ELSE 0 - ((0 - a) \div b)

cmod(a, b) == a - b * cdiv(a, b)

\* The deadline without the normalisation of pth.hxx:261-265.
abstime_no_carry(now, nsec) ==
    [sec |-> now.sec + cdiv(nsec, NS_PER_SEC), ns |-> now.ns + cmod(nsec, NS_PER_SEC)]

\* pth.hxx:259-265:
\*     abstime.tv_sec  =  now.tv_sec  + nsec / NS_PER_SEC;
\*     abstime.tv_nsec =  now.tv_nsec + nsec % NS_PER_SEC;
\*     long over = abstime.tv_nsec / NS_PER_SEC;
\*     if ( abstime.tv_nsec / NS_PER_SEC ) {
\*         abstime.tv_nsec -= over * NS_PER_SEC;
\*         abstime.tv_sec  += over;
\*     }
abstime(now, nsec) ==
    LET tv_sec == now.sec + cdiv(nsec, NS_PER_SEC)
        tv_nsec == now.ns + cmod(nsec, NS_PER_SEC)
        over == cdiv(tv_nsec, NS_PER_SEC)
    IN  IF cdiv(tv_nsec, NS_PER_SEC) # 0
        THEN [sec |-> tv_sec + over, ns |-> tv_nsec - over * NS_PER_SEC]
        ELSE [sec |-> tv_sec, ns |-> tv_nsec]

\* A timespec the OS accepts: 0 <= tv_nsec < 1000000000.
ValidTime(ts) == 0 <= ts.ns /\ ts.ns < NS_PER_SEC

\* The absolute time ts has passed at the clock reading now: the system
\* time equals or exceeds it.
Passed(now, ts) == now.sec > ts.sec \/ (now.sec = ts.sec /\ now.ns >= ts.ns)

\* pth.hxx:269-271:  if ( retval == ETIMEDOUT ) return ETIMEDOUT;
\*                   ASSERT_EQ0( retval );  return 0;
\* The value returned when ASSERT_EQ0( retval ) lets the call go on.
timedwait_result(retval) == IF retval = ETIMEDOUT THEN ETIMEDOUT ELSE 0

\* int cond_var::timedwait( mutex& mtx, long nsec ), the call.  tw_last is
\* "call" when the thread blocks, "call_return" when timedwait returns at
\* once, and "return" when a blocked call returns.
\* pthread_cond_timedwait is handed the local copy nh of the mutex.  It
\* returns EINVAL at once for an abstime that is no valid timespec, and
\* ETIMEDOUT at once for one that has passed; else the thread blocks.  With
\* NDEBUG the condition variable and the mutex were never initialised (their
\* init calls are dropped), the call on them is undefined: it fails, or it
\* acts as on initialised objects.
cond_var_timedwait(t, nsec) ==
    /\ lk_obj = "mutex"
    /\ lk_pc[t] = "ready" /\ lk_held[t].mutex
    /\ LET at == abstime(tw_now, nsec)
           returns(rv) ==
               /\ tw_last' = [op |-> IF rv # ETIMEDOUT /\ ASSERT_EQ0_halts(rv)
                                      THEN "halt" ELSE "call_return",
                              t |-> t, nsec |-> nsec, now |-> tw_now,
                              abstime |-> at, rv |-> rv, ret |-> timedwait_result(rv),
                              signalled |-> FALSE]
               /\ lk_pc' = IF rv # ETIMEDOUT /\ ASSERT_EQ0_halts(rv)
                           THEN [u \in Threads |-> "halted"] ELSE lk_pc
               /\ UNCHANGED <<nh, cond_handle, tw_call>>
       IN  \/ (~ValidTime(at) \/ NDEBUG) /\ returns(EINVAL)
           \/ ValidTime(at) /\ Passed(tw_now, at) /\ returns(ETIMEDOUT)
           \/ /\ ValidTime(at) /\ ~Passed(tw_now, at)
              /\ nh' = [nh EXCEPT ![t] = pthread_cond_wait_release(mutex_native_handle, t)]
              /\ cond_handle' = cond_handle \cup {t}
              /\ lk_pc' = [lk_pc EXCEPT ![t] = "timedblocked"]
              /\ tw_call' = [tw_call EXCEPT ![t] = [nsec |-> nsec, abstime |-> at]]
              /\ tw_last' = [op |-> "call", t |-> t, nsec |-> nsec, now |-> tw_now,
                             abstime |-> at, rv |-> 0, ret |-> 0, signalled |-> FALSE]
    /\ lk_last' = NoCall
    /\ cv_last' = NoReturn
    /\ UNCHANGED <<NDEBUG, lk_obj, mutex_handle, spin_handle, rwlock_handle, lk_held,
                   cv_shared, cv_seen, cv_mutated, cv_woke, tw_now>>

\* The return of pthread_cond_timedwait to a blocked thread: it was
\* signalled, or its deadline has passed; it takes the mutex object it was
\* handed (the copy nh) again and timedwait() returns.
cond_var_timedwait_return(t) ==
    /\ lk_pc[t] = "timedblocked"
    /\ nh[t] = 0
    /\ \E rv \in {0, ETIMEDOUT} :
          /\ rv = 0 => t \notin cond_handle
          /\ rv = ETIMEDOUT => t \in cond_handle /\ Passed(tw_now, tw_call[t].abstime)
          /\ tw_last' = [op |-> "return", t |-> t, nsec |-> tw_call[t].nsec,
                         now |-> Epoch, abstime |-> tw_call[t].abstime,
                         rv |-> rv, ret |-> timedwait_result(rv),
                         signalled |-> t \notin cond_handle]
    /\ cond_handle' = cond_handle \ {t}
    /\ nh' = [nh EXCEPT ![t] = 0]
    /\ lk_pc' = [lk_pc EXCEPT ![t] = "ready"]
    /\ tw_call' = [tw_call EXCEPT ![t] = NoTimedCall]
    /\ cv_woke' = [cv_woke EXCEPT ![t] = "no"]
    /\ lk_last' = NoCall
    /\ cv_last' = NoReturn
    /\ UNCHANGED <<NDEBUG, lk_obj, mutex_handle, spin_handle, rwlock_handle, lk_held,
                   cv_shared, cv_seen, cv_mutated, tw_now>>

\* CLOCK_REALTIME advances.
clock_tick ==
    /\ \E c \in ClockReadings :
          /\ Passed(c, tw_now) /\ c # tw_now
          /\ tw_now' = c
    /\ tw_last' = NoTimed
    /\ lk_last' = NoCall
    /\ cv_last' = NoReturn
    /\ UNCHANGED <<NDEBUG, lk_obj, mutex_handle, spin_handle, rwlock_handle, lk_held,
                   lk_pc, cond_handle, nh, cv_shared, cv_seen, cv_mutated, cv_woke,
                   tw_call>>

(***************************************************************************)
(* pth::thread.  The wrapper objects live in NumInst slots and are used by *)
(* one owning context; the OS threads they start run on their own.         *)
(***************************************************************************)
NumInst == 2

MaxOSThreads == 2

Insts == 1 .. NumInst

OSIds == 1 .. MaxOSThreads

VARIABLES
    t_alive,         \* the slot holds a constructed pth::thread object
    t_handle,        \* pth::thread::_handle: 0 is the "no thread" sentinel
    t_joinable,      \* pth::thread::_joinable
    os_thread,       \* the OS threads: [state, detached, joins]
    main_pc,         \* "run", or "hung" once a call never returns
    t_last           \* the wrapper operation made by the last step

thrvars == <<t_alive, t_handle, t_joinable, os_thread, main_pc, t_last>>

NoThread == [state |-> "none", detached |-> "no", joins |-> 0]

NoOp == [op |-> "none", i |-> 0, j |-> 0, h |-> 0, jn |-> FALSE]

InitThread ==
    /\ t_alive = [i \in Insts |-> FALSE]
    /\ t_handle = [i \in Insts |-> 0]
    /\ t_joinable = [i \in Insts |-> FALSE]
    /\ os_thread = [k \in OSIds |-> NoThread]
    /\ main_pc = "run"
    /\ t_last = NoOp

\* bool joinable() const noexcept { return _joinable; }
joinable(i) == t_joinable[i]

\* A thread the OS knows and has not reclaimed.
Exists(os, k) == k \in OSIds /\ os[k].state \in {"running", "finished"}

FreeIds == {k \in OSIds : os_thread[k].state = "none"}

NewId == CHOOSE k \in FreeIds : \A l \in FreeIds : k <= l

\* pthread_create: the new thread runs at once; ds is the detach state of
\* the attribute ("no": joinable, "attr": created detached).
pthread_create(os, k, ds) ==
    [os EXCEPT ![k] = [state |-> "running", detached |-> ds, joins |-> 0]]

\* pthread_join(k): the outcomes of the call.  It returns 0 once a joinable
\* thread has finished, and does not return before.  Joining a detached or
\* already joined thread, or a handle that names no thread, is undefined:
\* the call returns an error, or it never returns.
pthread_join(os, k) ==
    IF k \notin OSIds THEN {[os |-> os, rv |-> EINVAL, hang |-> FALSE]}
    ELSE LET counted == [os EXCEPT ![k].joins = IF @ < 2 THEN @ + 1 ELSE @]
         IN  IF Exists(os, k) /\ os[k].detached = "no"
             THEN IF os[k].state = "finished"
                  THEN {[os |-> [counted EXCEPT ![k].state = "joined"], rv |-> 0,
                         hang |-> FALSE]}
                  ELSE {}
             ELSE {[os |-> counted, rv |-> EINVAL, hang |-> h] : h \in BOOLEAN}

\* pthread_detach(k)
pthread_detach(os, k) == [os EXCEPT ![k].detached = "call"]

\* The OS join without the reset of the flag that follows it.
join_body_flag_kept(i) ==
    ASSERT_EQ0(\E o \in pthread_join(os_thread, t_handle[i]) :
                  /\ os_thread' = o.os
                  /\ main_pc' = IF o.hang THEN "hung" ELSE "run"
                  /\ UNCHANGED t_joinable,
               UNCHANGED <<t_joinable, os_thread, main_pc>>)

\* The body of join()'s if, pth.hxx:94-95:
\*     ASSERT_EQ0( ::pthread_join( _handle, retval) );
\*     _joinable = false;
\* A non-zero result does not stop the caller (ASSERT_EQ0 above); a call
\* that never returns leaves the caller in it.
join_body(i) ==
    ASSERT_EQ0(\E o \in pthread_join(os_thread, t_handle[i]) :
                  /\ os_thread' = o.os
                  /\ main_pc' = IF o.hang THEN "hung" ELSE "run"
                  /\ t_joinable' = IF o.hang THEN t_joinable
                                   ELSE [t_joinable EXCEPT ![i] = FALSE],
               /\ t_joinable' = [t_joinable EXCEPT ![i] = FALSE]
               /\ UNCHANGED <<os_thread, main_pc>>)

\* join() without its test of joinable().
join_unconditional(i) == join_body(i)

\* join(), pth.hxx:92-97:  if ( joinable() ) { ... }
join(i) ==
    IF joinable(i) THEN join_body(i)
    ELSE UNCHANGED <<t_joinable, os_thread, main_pc>>

\* void join(void** retval = nullptr)
thread_join(i) ==
    /\ main_pc = "run" /\ t_alive[i]
    /\ join(i)
    /\ t_last' = [op |-> IF main_pc' = "hung" THEN "hung" ELSE "join",
                  i |-> i, j |-> 0, h |-> t_handle[i], jn |-> t_joinable[i]]
    /\ UNCHANGED <<NDEBUG, t_alive, t_handle>>

\* void detach() { ASSERT_EQ0( ::pthread_detach( _handle ) ); }
\* _joinable is not written.  The caller detaches a thread it owns that is
\* neither joined nor detached yet.
thread_detach(i) ==
    /\ main_pc = "run" /\ t_alive[i]
    /\ ASSERT_EQ0(/\ Exists(os_thread, t_handle[i])
                  /\ os_thread[t_handle[i]].detached = "no"
                  /\ os_thread' = pthread_detach(os_thread, t_handle[i]),
                  /\ joinable(i)
                  /\ UNCHANGED os_thread)
    /\ t_last' = [op |-> "detach", i |-> i, j |-> 0, h |-> 0, jn |-> FALSE]
    /\ UNCHANGED <<NDEBUG, t_alive, t_handle, t_joinable, main_pc>>

\* The thread is created inside ASSERT_EQ0 (pth.hxx:51, 61): with NDEBUG no
\* thread is created and _handle is never written.
create_thread(i, ds) ==
    ASSERT_EQ0(/\ FreeIds # {}
               /\ os_thread' = pthread_create(os_thread, NewId, ds)
               /\ t_handle' = [t_handle EXCEPT ![i] = NewId],
               /\ \E g \in {0} \cup OSIds : t_handle' = [t_handle EXCEPT ![i] = g]
               /\ UNCHANGED os_thread)

\* thread( void* (*start_routine)(void*), void* arg = nullptr ), pth.hxx:58-62
thread_ctor(i) ==
    /\ main_pc = "run" /\ ~t_alive[i]
    /\ t_joinable' = [t_joinable EXCEPT ![i] = TRUE]
    /\ create_thread(i, "no")
    /\ t_alive' = [t_alive EXCEPT ![i] = TRUE]
    /\ t_last' = [op |-> "ctor", i |-> i, j |-> 0, h |-> 0, jn |-> FALSE]
    /\ UNCHANGED <<NDEBUG, main_pc>>

\* if (detachstate == PTHREAD_CREATE_JOINABLE) { _joinable = true; }
\* else { _joinable = false; }                            (pth.hxx:48-49)
attr_joinable_always(detachstate) == TRUE

attr_joinable(detachstate) ==
    IF detachstate = "PTHREAD_CREATE_JOINABLE" THEN TRUE ELSE FALSE

\* thread( const ::pthread_attr_t& attrhandle, start_routine, arg ), pth.hxx:43-53:
\* pthread_attr_getdetachstate is called outside ASSERT_EQ0, so the flag is
\* what the attribute says in either build.  t_last.jn records what the
\* attribute said.
thread_ctor_attr(i, detachstate) ==
    /\ main_pc = "run" /\ ~t_alive[i]
    /\ t_joinable' = [t_joinable EXCEPT ![i] = attr_joinable(detachstate)]
    /\ create_thread(i, IF detachstate = "PTHREAD_CREATE_JOINABLE" THEN "no" ELSE "attr")
    /\ t_alive' = [t_alive EXCEPT ![i] = TRUE]
    /\ t_last' = [op |-> "ctor_attr", i |-> i, j |-> 0, h |-> 0,
                  jn |-> detachstate = "PTHREAD_CREATE_JOINABLE"]
    /\ UNCHANGED <<NDEBUG, main_pc>>

\* thread() noexcept : _handle(0L), _joinable(false) { }
thread_ctor_default(i) ==
    /\ main_pc = "run" /\ ~t_alive[i]
    /\ t_handle' = [t_handle EXCEPT ![i] = 0]
    /\ t_joinable' = [t_joinable EXCEPT ![i] = FALSE]
    /\ t_alive' = [t_alive EXCEPT ![i] = TRUE]
    /\ t_last' = [op |-> "ctor_default", i |-> i, j |-> 0, h |-> 0, jn |-> FALSE]
    /\ UNCHANGED <<NDEBUG, os_thread, main_pc>>

\* ~thread() { if ( joinable() ) { join(); } }
\* The object is gone once the destructor has returned: its slot is empty
\* (the stale _handle is of no object, and is cleared).
thread_dtor(i) ==
    /\ main_pc = "run" /\ t_alive[i]
    /\ join(i)
    /\ t_alive' = IF main_pc' = "hung" THEN t_alive ELSE [t_alive EXCEPT ![i] = FALSE]
    /\ t_handle' = IF main_pc' = "hung" THEN t_handle ELSE [t_handle EXCEPT ![i] = 0]
    /\ t_last' = [op |-> IF main_pc' = "hung" THEN "hung" ELSE "dtor",
                  i |-> i, j |-> 0, h |-> 0, jn |-> t_joinable[i]]
    /\ UNCHANGED NDEBUG

\* x = std::exchange(other.x, new), with x the field f of object i and
\* other.x that of object j: other's field is read, then set to new, and
\* the value read is assigned.
exchange_no_reset(f, i, j, new) == [f EXCEPT ![i] = f[j]]

std_exchange(f, i, j, new) == [[f EXCEPT ![j] = new] EXCEPT ![i] = f[j]]

\* thread(thread&& other) noexcept, pth.hxx:75-78
thread_move_ctor(i, j) ==
    /\ main_pc = "run" /\ ~t_alive[i] /\ t_alive[j]
    /\ t_handle' = std_exchange(t_handle, i, j, 0)
    /\ t_joinable' = std_exchange(t_joinable, i, j, FALSE)
    /\ t_alive' = [t_alive EXCEPT ![i] = TRUE]
    /\ t_last' = [op |-> "move_ctor", i |-> i, j |-> j, h |-> t_handle[j],
                  jn |-> t_joinable[j]]
    /\ UNCHANGED <<NDEBUG, os_thread, main_pc>>

\* thread& operator=(thread&& other) noexcept, pth.hxx:80-84: the fields of
\* *this are overwritten; other may be *this.
thread_move_assign(i, j) ==
    /\ main_pc = "run" /\ t_alive[i] /\ t_alive[j]
    /\ t_handle' = std_exchange(t_handle, i, j, 0)
    /\ t_joinable' = std_exchange(t_joinable, i, j, FALSE)
    /\ t_last' = [op |-> "move_assign", i |-> i, j |-> j, h |-> t_handle[j],
                  jn |-> t_joinable[j]]
    /\ UNCHANGED <<NDEBUG, t_alive, os_thread, main_pc>>

\* The start routine of OS thread k returns.
os_thread_finish(k) ==
    /\ os_thread[k].state = "running"
    /\ os_thread' = [os_thread EXCEPT ![k].state = "finished"]
    /\ t_last' = NoOp
    /\ UNCHANGED <<NDEBUG, t_alive, t_handle, t_joinable, main_pc>>

(***************************************************************************)
(* The demo, playwpth.cxx: main starts num_threads workers running func,   *)
(* each of which enters one critical section under the global iomutex, and *)
(* joins them all.  Worker k is OS thread k; its pth::thread object is     *)
(* element k of the vector.                                                *)
(***************************************************************************)
\* const int num_threads = 50;
num_threads == 2

Workers == 1 .. num_threads

VARIABLES
    demo_pc,         \* main: "create", "join", "destroy", "exited"
    demo_i,          \* main's position in the loop it is in
    w_pc,            \* func: "start", "now", "stamped", "locked", "read", "acted",
                     \*       "unlocked", "done"
    w_read,          \* the value of the counter each worker read
    counter          \* the critical sections that were run

demovars == <<demo_pc, demo_i, w_pc, w_read, counter>>

\* No demo is running.
NoDemo ==
    /\ demo_pc = "none"
    /\ demo_i = 0
    /\ w_pc = [k \in Workers |-> "none"]
    /\ w_read = [k \in Workers |-> 0]
    /\ counter = 0

\* The next position of a loop over the workers, and the loop after it.
loop_next(pc_after) ==
    IF demo_i < num_threads
    THEN demo_i' = demo_i + 1 /\ demo_pc' = demo_pc
    ELSE demo_i' = 1 /\ demo_pc' = pc_after

\* threads.push_back(pth::thread(th_attr,func)), playwpth.cxx:45-47, with
\* th_attr's detach state PTHREAD_CREATE_JOINABLE (43).  The temporary is
\* move-constructed into the vector and destroyed: the element has the
\* handle and flag the constructor made, the temporary's destructor finds
\* joinable() false.
demo_create ==
    /\ demo_pc = "create"
    /\ thread_ctor_attr(demo_i, "PTHREAD_CREATE_JOINABLE")
    /\ loop_next("join")
    /\ UNCHANGED <<lockvars, w_pc, w_read, counter>>

\* for (auto& thread : threads) { thread.join(); }, playwpth.cxx:49-51
demo_join ==
    /\ demo_pc = "join"
    /\ thread_join(demo_i)
    /\ loop_next("destroy")
    /\ UNCHANGED <<lockvars, w_pc, w_read, counter>>

\* main returns, playwpth.cxx:53: the vector destroys its elements.
demo_destroy ==
    /\ demo_pc = "destroy"
    /\ thread_dtor(demo_i)
    /\ loop_next("exited")
    /\ UNCHANGED <<lockvars, w_pc, w_read, counter>>

\* func, playwpth.cxx:19: the worker reads the system clock.
func_now(k) ==
    /\ os_thread[k].state = "running" /\ w_pc[k] = "start"
    /\ w_pc' = [w_pc EXCEPT ![k] = "now"]
    /\ UNCHANGED <<NDEBUG, lockvars, thrvars, demo_pc, demo_i, w_read, counter>>

\* func, playwpth.cxx:20-21: the reading is converted to its time stamp.
func_stamp(k) ==
    /\ w_pc[k] = "now"
    /\ w_pc' = [w_pc EXCEPT ![k] = "stamped"]
    /\ UNCHANGED <<NDEBUG, lockvars, thrvars, demo_pc, demo_i, w_read, counter>>

\* func, playwpth.cxx:23:  iomutex.lock();
func_lock(k) ==
    /\ w_pc[k] = "stamped"
    /\ mutex_lock(k)
    /\ w_pc' = [w_pc EXCEPT ![k] = "locked"]
    /\ UNCHANGED <<thrvars, demo_pc, demo_i, w_read, counter>>

\* func, playwpth.cxx:24-25: what the worker does in its critical section,
\* on state it shares with the others: it reads it, and writes it.
func_read(k) ==
    /\ w_pc[k] = "locked"
    /\ w_read' = [w_read EXCEPT ![k] = counter]
    /\ w_pc' = [w_pc EXCEPT ![k] = "read"]
    /\ UNCHANGED <<NDEBUG, lockvars, thrvars, demo_pc, demo_i, counter>>

func_act(k) ==
    /\ w_pc[k] = "read"
    /\ counter' = w_read[k] + 1
    /\ w_pc' = [w_pc EXCEPT ![k] = "acted"]
    /\ UNCHANGED <<NDEBUG, lockvars, thrvars, demo_pc, demo_i, w_read>>

\* func, playwpth.cxx:26:  iomutex.unlock();
func_unlock(k) ==
    /\ w_pc[k] = "acted"
    /\ mutex_unlock(k)
    /\ w_pc' = [w_pc EXCEPT ![k] = "unlocked"]
    /\ UNCHANGED <<thrvars, demo_pc, demo_i, w_read, counter>>

\* func, playwpth.cxx:27:  return nullptr;
func_return(k) ==
    /\ w_pc[k] = "unlocked"
    /\ os_thread_finish(k)
    /\ w_pc' = [w_pc EXCEPT ![k] = "done"]
    /\ UNCHANGED <<lockvars, demo_pc, demo_i, w_read, counter>>

(***************************************************************************)
(* The specifications.                                                     *)
(***************************************************************************)
vars == <<NDEBUG, lockvars, condvars, thrvars, demovars>>

\* Threads using one lock object.
NextLocks ==
    \/ \E t \in Threads : mutex_lock(t) /\ UNCHANGED <<condvars, thrvars, demovars>>
    \/ \E t \in Threads : mutex_unlock(t) /\ UNCHANGED <<condvars, thrvars, demovars>>
    \/ \E t \in Threads : mutex_trylock(t) /\ UNCHANGED <<condvars, thrvars, demovars>>
    \/ \E t \in Threads : spinlock_lock(t) /\ UNCHANGED <<condvars, thrvars, demovars>>
    \/ \E t \in Threads : spinlock_unlock(t) /\ UNCHANGED <<condvars, thrvars, demovars>>
    \/ \E t \in Threads : spinlock_trylock(t) /\ UNCHANGED <<condvars, thrvars, demovars>>
    \/ \E t \in Threads : rwlock_rdlock(t) /\ UNCHANGED <<condvars, thrvars, demovars>>
    \/ \E t \in Threads : rwlock_wrlock(t) /\ UNCHANGED <<condvars, thrvars, demovars>>
    \/ \E t \in Threads : rwlock_wrlock_return(t) /\ UNCHANGED <<condvars, thrvars, demovars>>
    \/ \E t \in Threads : rwlock_unlock(t) /\ UNCHANGED <<condvars, thrvars, demovars>>
    \/ \E t \in Threads : rwlock_tryrdlock(t) /\ UNCHANGED <<condvars, thrvars, demovars>>
    \/ \E t \in Threads : rwlock_trywrlock(t) /\ UNCHANGED <<condvars, thrvars, demovars>>

InitLockObject == InitLocks /\ InitCond /\ NoTimedwait /\ InitThread /\ NoDemo

SpecLocks == InitLockObject /\ [][NextLocks]_vars

\* Fair scheduling of the users of a ReadWriteLock: every holder calls
\* unlock(), and a thread blocked in pthread_rwlock_wrlock is given the lock
\* if the lock is free again and again.
FairLocks ==
    \A t \in Threads :
        /\ WF_vars(rwlock_unlock(t) /\ UNCHANGED <<condvars, thrvars, demovars>>)
        /\ SF_vars(rwlock_wrlock_return(t) /\ UNCHANGED <<condvars, thrvars, demovars>>)

SpecLocksFair == InitLockObject /\ [][NextLocks]_vars /\ FairLocks

\* Threads using one condition variable and its mutex.
InitCondVar ==
    InitLocks /\ lk_obj = "mutex" /\ InitCond /\ NoTimedwait /\ InitThread /\ NoDemo

NextCond ==
    \/ \E t \in Threads : cv_lock(t) /\ UNCHANGED <<thrvars, timedvars, demovars>>
    \/ \E t \in Threads : cv_unlock(t) /\ UNCHANGED <<thrvars, timedvars, demovars>>
    \/ \E t \in Threads : mutate(t) /\ UNCHANGED <<thrvars, timedvars, demovars>>
    \/ \E t \in Threads : cond_var_wait(t) /\ UNCHANGED <<thrvars, timedvars, demovars>>
    \/ \E t \in Threads : cond_var_wait_return(t) /\ UNCHANGED <<thrvars, timedvars, demovars>>
    \/ \E t \in Threads : cond_var_signal(t) /\ UNCHANGED <<thrvars, timedvars, demovars>>
    \/ \E t \in Threads : cond_var_broadcast(t) /\ UNCHANGED <<thrvars, timedvars, demovars>>

SpecCond == InitCondVar /\ [][NextCond]_vars

\* Threads using timedwait() on one condition variable and its mutex, with
\* the clock running.
InitTimed ==
    /\ InitLocks /\ lk_obj = "mutex" /\ InitCond /\ InitThread /\ NoDemo
    /\ tw_now \in ClockReadings
    /\ tw_call = [t \in Threads |-> NoTimedCall]
    /\ tw_last = NoTimed

InitTimedDebug == InitTimed /\ NDEBUG = FALSE

NextTimed ==
    \/ \E t \in Threads : cv_lock(t) /\ tw_last' = NoTimed
                          /\ UNCHANGED <<thrvars, tw_now, tw_call, demovars>>
    \/ \E t \in Threads : cv_unlock(t) /\ tw_last' = NoTimed
                          /\ UNCHANGED <<thrvars, tw_now, tw_call, demovars>>
    \/ \E t \in Threads, nsec \in Durations : cond_var_timedwait(t, nsec)
                          /\ UNCHANGED <<thrvars, demovars>>
    \/ \E t \in Threads : cond_var_timedwait_return(t) /\ UNCHANGED <<thrvars, demovars>>
    \/ \E t \in Threads : cond_var_signal(t) /\ tw_last' = NoTimed
                          /\ UNCHANGED <<thrvars, tw_now, tw_call, demovars>>
    \/ \E t \in Threads : cond_var_broadcast(t) /\ tw_last' = NoTimed
                          /\ UNCHANGED <<thrvars, tw_now, tw_call, demovars>>
    \/ clock_tick /\ UNCHANGED <<thrvars, demovars>>

SpecTimed == InitTimed /\ [][NextTimed]_vars

SpecTimedDebug == InitTimedDebug /\ [][NextTimed]_vars

\* The demo.  iomutex is a global: its storage is zero before its
\* constructor runs, which is the state pthread_mutex_init gives it.
InitDemo ==
    /\ NDEBUG \in BOOLEAN
    /\ lk_obj = "mutex"
    /\ mutex_handle = 0 /\ spin_handle = 0
    /\ rwlock_handle = RwInit("PREFER_WRITER_NONRECURSIVE")
    /\ lk_held = [t \in Threads |-> NotHeld]
    /\ lk_pc = [t \in Threads |-> "ready"]
    /\ lk_last = NoCall
    /\ InitCond /\ NoTimedwait /\ InitThread
    /\ demo_pc = "create"
    /\ demo_i = 1
    /\ w_pc = [k \in Workers |-> "start"]
    /\ w_read = [k \in Workers |-> 0]
    /\ counter = 0

InitDemoDebug == InitDemo /\ NDEBUG = FALSE

NextDemo ==
    \/ demo_create /\ UNCHANGED condvars
    \/ demo_join /\ UNCHANGED condvars
    \/ demo_destroy /\ UNCHANGED condvars
    \/ \E k \in Workers : func_now(k) /\ UNCHANGED condvars
    \/ \E k \in Workers : func_stamp(k) /\ UNCHANGED condvars
    \/ \E k \in Workers : func_lock(k) /\ UNCHANGED condvars
    \/ \E k \in Workers : func_read(k) /\ UNCHANGED condvars
    \/ \E k \in Workers : func_act(k) /\ UNCHANGED condvars
    \/ \E k \in Workers : func_unlock(k) /\ UNCHANGED condvars
    \/ \E k \in Workers : func_return(k) /\ UNCHANGED condvars

\* Fair scheduling: main and every worker take their next step when they can.
FairDemo ==
    /\ WF_vars(demo_create /\ UNCHANGED condvars)
    /\ WF_vars(demo_join /\ UNCHANGED condvars)
    /\ WF_vars(demo_destroy /\ UNCHANGED condvars)
    /\ \A k \in Workers :
          /\ WF_vars(func_now(k) /\ UNCHANGED condvars)
          /\ WF_vars(func_stamp(k) /\ UNCHANGED condvars)
          /\ WF_vars(func_lock(k) /\ UNCHANGED condvars)
          /\ WF_vars(func_read(k) /\ UNCHANGED condvars)
          /\ WF_vars(func_act(k) /\ UNCHANGED condvars)
          /\ WF_vars(func_unlock(k) /\ UNCHANGED condvars)
          /\ WF_vars(func_return(k) /\ UNCHANGED condvars)

SpecDemo == InitDemo /\ [][NextDemo]_vars /\ FairDemo

SpecDemoDebug == InitDemoDebug /\ [][NextDemo]_vars /\ FairDemo

\* One context using pth::thread objects.  No lock object is in use.
NoLocks ==
    /\ lk_obj = "none"
    /\ mutex_handle = 0 /\ spin_handle = 0
    /\ rwlock_handle = RwInit("PREFER_WRITER_NONRECURSIVE")
    /\ lk_held = [t \in Threads |-> NotHeld]
    /\ lk_pc = [t \in Threads |-> "ready"]
    /\ lk_last = NoCall

InitThreads ==
    NDEBUG \in BOOLEAN /\ NoLocks /\ InitCond /\ NoTimedwait /\ InitThread /\ NoDemo

\* The build the repository configures: its CMakeLists.txt does not define NDEBUG.
InitThreadsDebug ==
    NDEBUG = FALSE /\ NoLocks /\ InitCond /\ NoTimedwait /\ InitThread /\ NoDemo

NextThread ==
    \/ \E i \in Insts : thread_ctor(i) /\ UNCHANGED <<lockvars, condvars, demovars>>
    \/ \E i \in Insts, ds \in {"PTHREAD_CREATE_JOINABLE", "PTHREAD_CREATE_DETACHED"} :
          thread_ctor_attr(i, ds) /\ UNCHANGED <<lockvars, condvars, demovars>>
    \/ \E i \in Insts : thread_ctor_default(i) /\ UNCHANGED <<lockvars, condvars, demovars>>
    \/ \E i \in Insts : thread_dtor(i) /\ UNCHANGED <<lockvars, condvars, demovars>>
    \/ \E i, j \in Insts : thread_move_ctor(i, j) /\ UNCHANGED <<lockvars, condvars, demovars>>
    \/ \E i, j \in Insts : thread_move_assign(i, j) /\ UNCHANGED <<lockvars, condvars, demovars>>
    \/ \E i \in Insts : thread_join(i) /\ UNCHANGED <<lockvars, condvars, demovars>>
    \/ \E i \in Insts : thread_detach(i) /\ UNCHANGED <<lockvars, condvars, demovars>>
    \/ \E k \in OSIds : os_thread_finish(k) /\ UNCHANGED <<lockvars, condvars, demovars>>

SpecThread == InitThreads /\ [][NextThread]_vars

SpecThreadDebug == InitThreadsDebug /\ [][NextThread]_vars

(***************************************************************************)
(* Claims about the locks.                                                 *)
(***************************************************************************)
ExclusiveHolders(field, mode) == {t \in Threads : lk_held[t][field] = mode}

\* C1: for every Mutex, Spinlock and ReadWriteLock, at most one thread holds
\* the lock in exclusive mode (lock/wrlock, or a try-call that returned true)
\* at any instant, and readers hold a ReadWriteLock only while no writer does.
C1_MutualExclusion ==
    /\ Cardinality(ExclusiveHolders("mutex", TRUE)) <= 1
    /\ Cardinality(ExclusiveHolders("spin", TRUE)) <= 1
    /\ Cardinality(ExclusiveHolders("rw", "wr")) <= 1
    /\ ExclusiveHolders("rw", "rd") # {} => ExclusiveHolders("rw", "wr") = {}

\* C4: a try-call returns false if and only if the primitive was held in a
\* conflicting mode at the instant of the call, and a try-call is never made
\* to wait: a thread that is not inside another call can always complete it.
C4_TryFalseIffConflict ==
    /\ lk_last.op # "none" => (lk_last.ret = FALSE <=> lk_last.conflict)
    /\ \A t \in Threads :
          /\ lk_obj = "mutex" /\ lk_pc[t] = "ready" => ENABLED mutex_trylock(t)
          /\ lk_obj = "spinlock" /\ lk_pc[t] = "ready" => ENABLED spinlock_trylock(t)

(***************************************************************************)
(* Claims about the condition variable.                                    *)
(***************************************************************************)
\* C2: while a thread is suspended in wait(mutex) it does not hold the Mutex
\* it passed (another thread's lock() can succeed), and when wait() returns
\* the caller holds that Mutex again.
C2_WaitReleasesMutex ==
    /\ \A t \in Threads : lk_pc[t] = "blocked" => mutex_handle # t
    /\ cv_last.op = "wait_return" => mutex_handle = cv_last.t

\* C3: with a thread in wait(m) and nobody inside a critical section, a
\* thread that calls m.lock() acquires m (the threads do not deadlock), and
\* wait() does not return before the shared state was changed by a thread
\* that then signalled, as the protocol has it.
C3_NoDeadlockMutationFirst ==
    /\ \A a, b \in Threads :
          /\ lk_pc[a] = "blocked" /\ lk_pc[b] = "ready"
          /\ \A u \in Threads : lk_pc[u] = "ready" => ~lk_held[u].mutex
          => ENABLED cv_lock(b)
    /\ cv_last.op = "wait_return" /\ cv_last.by # "other" => cv_shared > cv_last.seen

(***************************************************************************)
(* Claims about pth::thread.                                               *)
(***************************************************************************)
\* Object i owns a thread that has been neither joined nor detached.
Owns(i) ==
    /\ Exists(os_thread, t_handle[i])
    /\ os_thread[t_handle[i]].detached = "no"

\* C5: joinable() of an instance is true if and only if the instance owns a
\* thread that has been neither joined nor detached.
C5_JoinableIffOwns ==
    \A i \in Insts : t_alive[i] => (joinable(i) <=> Owns(i))

\* C6: once detach() was called on a thread, no OS join is issued on it, by
\* join() or by the destructor, and the destructor does not block on it.
C6_NoJoinAfterDetach ==
    /\ \A k \in OSIds : os_thread[k].detached = "call" => os_thread[k].joins = 0
    /\ main_pc # "hung"

\* C7: a thread that was started joinable and never detached, and is not
\* joined yet, is still the thread of a live instance that will join it.
C7_NoThreadOutlivesWrapper ==
    \A k \in OSIds :
        Exists(os_thread, k) /\ os_thread[k].detached = "no"
        => \E i \in Insts : t_alive[i] /\ t_handle[i] = k /\ joinable(i)

\* The state a move leaves: the destination has the source's previous handle
\* and flag, the source is in the "no thread" state.
Moved ==
    /\ t_handle[t_last.i] = t_last.h
    /\ t_joinable[t_last.i] = t_last.jn
    /\ t_handle[t_last.j] = 0
    /\ ~joinable(t_last.j)

\* C8, as stated: after move-construction or move-assignment, for every
\* source and destination, the destination has the source's previous handle
\* and joinable flag and the source is in the "no thread" state.
C8_MoveTransfers_AnyPair ==
    t_last.op \in {"move_ctor", "move_assign"} => Moved

\* C8, amended: the same for every source and destination that are distinct
\* objects; a self-move-assignment leaves the object as it was.
C8_MoveTransfers ==
    /\ t_last.op \in {"move_ctor", "move_assign"} /\ t_last.i # t_last.j => Moved
    /\ t_last.op = "move_assign" /\ t_last.i = t_last.j
       => t_handle[t_last.i] = t_last.h /\ t_joinable[t_last.i] = t_last.jn

\* A move of a joinable thread between two objects has just been made.
C8_Witness ==
    /\ t_last.op \in {"move_ctor", "move_assign"}
    /\ t_last.i # t_last.j /\ t_last.jn /\ t_last.h # 0

\* C9: the default-attribute constructor leaves joinable() true; the flag of
\* an object that is not moved stays true until join(); after join() it is
\* false, and join() has returned only after the object's thread terminated.
C9_JoinableUntilJoined ==
    [][ /\ t_last'.op = "ctor" => t_joinable'[t_last'.i]
        /\ \A i \in Insts :
              t_alive[i] /\ t_alive'[i] /\ t_joinable[i] /\ ~t_joinable'[i]
              => /\ t_last'.op \in {"join", "move_ctor", "move_assign"}
                 /\ i \in {t_last'.i, t_last'.j}
        /\ t_last'.op = "join" /\ t_last'.jn
           /\ ~(t_last'.h \in OSIds /\ os_thread[t_last'.h].detached # "no")
           => /\ ~t_joinable'[t_last'.i]
              /\ t_last'.h \in OSIds
              /\ os_thread'[t_last'.h].state = "joined" ]_vars

\* C10: join() on an instance whose joinable() is false returns (it does not
\* block), changes no state and issues no OS join.
C10_JoinNotJoinableNoOp ==
    [][ \A i \in Insts :
          /\ main_pc = "run" /\ t_alive[i] /\ ~joinable(i) => ENABLED thread_join(i)
          /\ t_last'.op \in {"join", "hung"} /\ t_last'.i = i /\ ~t_last'.jn
             => /\ t_last'.op = "join"
                /\ UNCHANGED <<t_alive, t_handle, t_joinable, os_thread, main_pc>> ]_vars

\* join() has just been called on an instance that was not joinable and whose
\* handle names a thread (an instance already joined, or created detached).
C10_Witness ==
    t_last.op = "join" /\ ~t_last.jn /\ t_last.h # 0

\* C11: an instance constructed from an attribute object has joinable() true
\* exactly when the attribute's detach state is joinable; an instance whose
\* thread was created detached is not joinable, and no OS join is ever issued
\* for a thread created detached, by join() or by the destructor.
C11_AttrCtorJoinable ==
    /\ t_last.op = "ctor_attr" => (joinable(t_last.i) <=> t_last.jn)
    /\ \A i \in Insts :
          t_alive[i] /\ t_handle[i] \in OSIds /\ os_thread[t_handle[i]].detached = "attr"
          => ~joinable(i)
    /\ \A k \in OSIds : os_thread[k].detached = "attr" => os_thread[k].joins = 0

\* join() has just been called on an instance whose thread was created detached.
C11_Witness ==
    /\ t_last.op = "join" /\ t_last.h \in OSIds
    /\ os_thread[t_last.h].detached = "attr"

(***************************************************************************)
(* Claims about timedwait.                                                 *)
(***************************************************************************)
\* C12: for every clock reading (sec, ns) with 0 <= ns < 1000000000 and every
\* relative duration r >= 0, the deadline timedwait computes has
\* 0 <= deadline.ns < 1000000000 and is r nanoseconds after the reading:
\* (deadline.sec - sec) * 1000000000 + deadline.ns = ns + r.
C12_DeadlineExact ==
    tw_last.op \in {"call", "call_return"} /\ tw_last.nsec >= 0
    => /\ ValidTime(tw_last.abstime)
       /\ (tw_last.abstime.sec - tw_last.now.sec) * NS_PER_SEC - tw_last.nsec
          = tw_last.now.ns - tw_last.abstime.ns

\* timedwait was called with a duration whose sub-second part, added to the
\* clock's, exceeds one second: the carry case.
C12_Witness ==
    /\ tw_last.op \in {"call", "call_return"} /\ tw_last.nsec > 0
    /\ tw_last.now.ns + cmod(tw_last.nsec, NS_PER_SEC) >= NS_PER_SEC

\* C20: for every relative duration passed to timedwait, negative ones
\* included, the nanosecond field of the computed deadline lies in
\* [0, 1000000000).
C20_DeadlineNsInRange ==
    tw_last.op \in {"call", "call_return"} => ValidTime(tw_last.abstime)

\* C13: timedwait(mutex, r), r >= 0, returns ETIMEDOUT exactly when it was not
\* signalled before its deadline passed and 0 exactly when it was signalled;
\* with r = 0 and no signal it returns ETIMEDOUT; on return the caller holds
\* the mutex, and the mutex is released while the caller waits.
C13_TimedwaitStatus ==
    /\ tw_last.op \in {"call_return", "return"} /\ tw_last.nsec >= 0
       => /\ tw_last.ret = ETIMEDOUT <=> ~tw_last.signalled
          /\ tw_last.ret = 0 <=> tw_last.signalled
          /\ tw_last.nsec = 0 /\ ~tw_last.signalled => tw_last.ret = ETIMEDOUT
          /\ mutex_handle = tw_last.t
    /\ \A t \in Threads : lk_pc[t] = "timedblocked" => mutex_handle # t

\* C14: in a debug build (NDEBUG not defined), when the OS call of a wrapper
\* operation returns a non-zero result other than EBUSY for a trylock or
\* ETIMEDOUT for timedwait, the process halts: the operation does not return
\* to its caller.
C14_DebugFaultHalts ==
    ~NDEBUG /\ tw_last.op # "none" /\ tw_last.rv \notin {0, ETIMEDOUT}
    => tw_last.op = "halt"

(***************************************************************************)
(* Claims about the demo.                                                  *)
(***************************************************************************)
InCriticalSection == {k \in Workers : w_pc[k] \in {"locked", "read", "acted"}}

\* C15: with num_threads workers launched, each entering one critical
\* section under the shared mutex once, and main joining each: under fair
\* scheduling main terminates, every worker is joined exactly once, no two
\* workers are in the critical section at the same time, and the counter of
\* critical sections equals num_threads at the end.
C15_DemoTerminatesCounted ==
    /\ [](Cardinality(InCriticalSection) <= 1)
    /\ [](\A k \in Workers : os_thread[k].joins <= 1)
    /\ [](demo_pc = "exited"
          => /\ counter = num_threads
             /\ \A k \in Workers : os_thread[k].state = "joined" /\ os_thread[k].joins = 1)
    /\ <>(demo_pc = "exited")

(***************************************************************************)
(* Claims about the writer preference of the ReadWriteLock.                *)
(***************************************************************************)
WriterPreferring == rwlock_handle.kind = "PREFER_WRITER_NONRECURSIVE"

C17_BuildsEquivalent ==
    \A t \in Threads :
        /\ lk_held[t].mutex => mutex_handle = t
        /\ lk_held[t].spin => spin_handle = t
        /\ lk_held[t].rw = "wr" => rwlock_handle.writer = t
        /\ lk_held[t].rw = "rd" => t \in rwlock_handle.readers

\* C18: a trylock(), tryrdlock() or trywrlock() that returns true was given
\* success by the OS, and the caller holds the lock in the mode it asked
\* for; an OS result that is neither success nor EBUSY never yields true.
C18_TryTrueOnlyOnSuccess ==
    lk_last.op # "none" /\ lk_last.ret
    => /\ lk_last.rv = 0
       /\ lk_last.op = "mutex_trylock" => mutex_handle = lk_last.t
       /\ lk_last.op = "spinlock_trylock" => spin_handle = lk_last.t
       /\ lk_last.op = "rwlock_tryrdlock" => lk_last.t \in rwlock_handle.readers
       /\ lk_last.op = "rwlock_trywrlock" => rwlock_handle.writer = lk_last.t

(***************************************************************************)
(* Claims about the ownership of threads.                                  *)
(***************************************************************************)
\* The live instances that are joinable and hold the handle of OS thread k.
JoinableOwners(k) == {i \in Insts : t_alive[i] /\ joinable(i) /\ t_handle[i] = k}

\* C19: for every OS thread that was created and on which detach() was not
\* called, whatever constructions, moves, joins and destructions were made,
\* at most one live instance is joinable with that thread's handle, and the
\* OS join was issued on it at most once.
C19_UniqueOwnership ==
    \A k \in OSIds :
        os_thread[k].state # "none" /\ os_thread[k].detached # "call"
        => /\ Cardinality(JoinableOwners(k)) <= 1
           /\ os_thread[k].joins <= 1

\* A thread whose handle was moved to another instance has been joined
\* through it: the instance that joined it is not the only one alive.
C19_Witness ==
    /\ t_last.op = "join" /\ t_last.jn /\ t_last.h \in OSIds
    /\ os_thread[t_last.h].state = "joined"
    /\ \E j \in Insts : j # t_last.i /\ t_alive[j] /\ t_handle[j] = 0 /\ ~joinable(j)

=============================================================================
